---- MODULE Spec2Model ----
(***************************************************************************)
(* A model of the request-routing core of ton-grpc:                        *)
(*   - SharedService (tonlibjson-client/src/shared.rs): a tower Service    *)
(*     behind Arc<tokio::sync::RwLock<S>>, used through several clones;    *)
(*   - DynamicServiceStream (tonlibjson-tokio/src/discover.rs): the        *)
(*     periodic liteserver discovery generator;                            *)
(*   - Request / Response / Requestable (tonlibjson-client/src/request.rs):*)
(*     the tagged request, its wire form and the round-trip call;          *)
(*   - TvmEmulatorService::process (tvm-grpc/src/tvm_emulator.rs): the     *)
(*     per-stream emulator session.                                        *)
(* The components share no state; each has its own specification and       *)
(* leaves the other components' variables unchanged.                       *)
(***************************************************************************)
EXTENDS Integers, Sequences, FiniteSets, TLC

\* ------------------------------------------------------------- bounds
NumCallers == 2        \* holders of a clone of one SharedService
NumNodes == 3          \* liteservers that can appear in a fetched configuration
MaxTicks == 2          \* discovery ticks
MaxRequests == 3       \* Request values built
MaxMessages == 3       \* messages read from one emulator input stream

Callers == 1..NumCallers
Loader == NumCallers + 1       \* the task that runs load()
NoOne == NumCallers + 2        \* "no task"

VARIABLES
    \* tokio::sync::RwLock<S> inside the Arc (shared.rs:21)
    writer,       \* the task holding write access, or NoOne
    readers,      \* the tasks holding read access
    waiters,      \* FIFO queue of tasks suspended in write().await / blocking_read()
    \* one task per clone of the SharedService
    pc,           \* position of each caller
    woken,        \* whether the caller's task has been woken (is scheduled to be polled)
    lastPoll,     \* the caller's latest SharedService::poll_ready: <<what it returned,
                  \* what S::poll_ready returned to it ("untouched" when S was not asked)>>
    r,            \* the future guard.call(req) gave the caller (a slot of fut), or NoOne
    received,     \* the outcome the caller's call future resolved to
    readyAtSubmit,\* history: the wrapped service held a readiness promise when
                  \* this caller's request was submitted to it
    \* the wrapped capability S
    promise,      \* a poll_ready of S returned Ready and no call of S followed yet
    fut,          \* the futures S handed out: request and state
    \* the task calling Load::load
    lpc,
    dropped,      \* history: the caller that dropped a call future last, and where the
                  \* future stood then
    \* the generator of DynamicServiceStream::new (discover.rs:28-61)
    dpc,            \* "tick": at interval.tick().await; "diff": inside a tick; "done": ended
    tick,           \* ticks begun
    liteservers,    \* the tracked snapshot (discover.rs:29)
    liteserver_new, \* the snapshot of the tick in progress (discover.rs:39)
    remove,         \* liteservers_remove still to be yielded (discover.rs:41)
    insert,         \* liteservers_insert still to be handled (discover.rs:42)
    events,         \* the Change events yielded so far, in order, with their tick
    polled,         \* what DynamicServiceStream::poll_next returned last
    \* history of the discovery ticks
    prevSnap,       \* the snapshot fetched before the latest one ({} at the first tick)
    built,          \* nodes of this tick for which the factory call succeeded
    failed,         \* nodes of this tick for which the factory call failed
    \* Request values (request.rs:42-52)
    reqs,           \* the live Request values, in the order they were made
    origin,         \* history: for each of them the operation that made it and the
                    \* Request it was made from (0: from a payload)
    minted,         \* RequestId::new_v4() calls so far
    wire,           \* the latest serialization of a Request and what was read back
    \* one Requestable::call per caller (request.rs:23-37)
    cpc,            \* position of the call
    request,        \* the Result of self.into_request()
    waited,         \* history: client.ready() was awaited
    given,          \* history: the capability was given a request
    json,           \* the raw response
    deserialized,   \* history: serde_json::from_value ran
    result,         \* what the call returned
    \* one TvmEmulatorService::process stream (tvm_emulator.rs:28-77)
    emulator,       \* state.emulator: 0 for None, else the message whose Prepare made it
    spc,            \* "running" or "ended"
    nread,          \* messages taken from the input stream
    output,         \* the items yielded so far
    endedBy         \* why the output stream ended

sharedVars == <<writer, readers, waiters, pc, woken, lastPoll, r, received,
                readyAtSubmit, promise, fut, lpc, dropped>>

discoverVars == <<dpc, tick, liteservers, liteserver_new, remove, insert, events, polled,
                  prevSnap, built, failed>>

requestVars == <<reqs, origin, minted, wire>>

callVars == <<cpc, request, waited, given, json, deserialized, result>>

emulatorVars == <<emulator, spc, nread, output, endedBy>>

vars == <<sharedVars, discoverVars, requestVars, callVars, emulatorVars>>

\* what the actions of one component leave alone
notShared == <<discoverVars, requestVars, callVars, emulatorVars>>
notDiscover == <<sharedVars, requestVars, callVars, emulatorVars>>
notRequest == <<sharedVars, discoverVars, callVars, emulatorVars>>
notCall == <<sharedVars, discoverVars, reqs, origin, wire, emulatorVars>>
notEmulator == <<sharedVars, discoverVars, requestVars, callVars>>

\* ------------------------------------------------------------- RwLock
\* faulty variant: try_write that looks at the readers only
LockFreeOfReaders == readers = {}

\* try_write: succeeds only when nobody holds or is being handed the lock.
LockFree == writer = NoOne /\ readers = {}

\* Releasing hands the lock to the head of the FIFO wait queue: a writer alone,
\* or every reader up to the next writer.
RECURSIVE Grant(_, _, _)
Grant(w, rs, q) ==
    IF q = <<>> \/ w # NoOne THEN <<w, rs, q>>
    ELSE IF Head(q) = Loader THEN Grant(w, rs \cup {Head(q)}, Tail(q))
    ELSE IF rs = {} THEN <<Head(q), rs, Tail(q)>>
    ELSE <<w, rs, q>>

\* pc of the tasks after the lock has been handed over
Handed(g, p) == [c \in Callers |-> IF g[1] = c /\ p[c] = "queued" THEN "locked" ELSE p[c]]

\* faulty variant: the write guard is never dropped
KeepWrite(p) ==
    /\ pc' = p
    /\ UNCHANGED <<writer, readers, waiters, lpc>>

\* drop(guard) of a write guard (shared.rs:48 at return, shared.rs:66): the lock
\* goes to the head of the queue; p is the callers' pc after the holder's own step.
ReleaseWrite(p) ==
    LET g == Grant(NoOne, {}, waiters) IN
    /\ writer' = g[1]
    /\ readers' = g[2]
    /\ waiters' = g[3]
    /\ pc' = Handed(g, p)
    /\ lpc' = IF Loader \in g[2] THEN "reading" ELSE lpc

\* ------------------------------------------------------------- the wrapped capability S
PollOutcomes == {"Ready", "Pending", "Err"}
CallOutcomes == {"Ok", "Err"}

\* the request a caller's call carries
Req(c) == <<"req", c>>

\* S::poll_ready: any outcome; a Ready is a promise that lasts until the next call
InnerPollReady(out) ==
    promise' = (promise \/ out = "Ready")

\* S::call(req): consumes the readiness promise and hands out a future in slot f
InnerCall(f, req) ==
    /\ promise' = FALSE
    /\ fut' = [fut EXCEPT ![f] = [req |-> req, st |-> "running"]]

\* the future of S in slot f resolves, to a success or to an error
InnerComplete(f) ==
    /\ fut[f].st = "running"
    /\ \E out \in CallOutcomes : fut' = [fut EXCEPT ![f].st = out]
    /\ UNCHANGED <<writer, readers, waiters, pc, woken, lastPoll, r, received,
                   readyAtSubmit, promise, lpc>>
    /\ UNCHANGED <<dropped, notShared>>

\* S wakes a task whose poll_ready it answered Pending (it was given cx, shared.rs:47)
InnerWake(c) ==
    /\ pc[c] = "idle" /\ ~woken[c]
    /\ lastPoll[c][2] = "Pending"
    /\ woken' = [woken EXCEPT ![c] = TRUE]
    /\ UNCHANGED <<writer, readers, waiters, pc, lastPoll, r, received,
                   readyAtSubmit, promise, fut, lpc>>
    /\ UNCHANGED <<dropped, notShared>>

\* ------------------------------------------------------------- SharedService::poll_ready
\* faulty variant: the busy path returns Pending without waking the task
PollReadyBusyNoWake(c) ==
    /\ pc[c] = "idle" /\ woken[c]
    /\ writer # NoOne \/ readers # {}
    /\ woken' = [woken EXCEPT ![c] = FALSE]
    /\ lastPoll' = [lastPoll EXCEPT ![c] = <<"Pending", "untouched">>]
    /\ UNCHANGED <<writer, readers, waiters, pc, r, received,
                   readyAtSubmit, promise, fut, lpc>>
    /\ UNCHANGED <<dropped, notShared>>

\* try_write() fails (shared.rs:49-53): wake_by_ref, Poll::Pending
PollReadyBusy(c) ==
    /\ pc[c] = "idle" /\ woken[c]
    /\ ~LockFree
    /\ woken' = [woken EXCEPT ![c] = TRUE]
    /\ lastPoll' = [lastPoll EXCEPT ![c] = <<"Pending", "untouched">>]
    /\ UNCHANGED <<writer, readers, waiters, pc, r, received,
                   readyAtSubmit, promise, fut, lpc>>
    /\ UNCHANGED <<dropped, notShared>>

\* try_write() succeeds (shared.rs:45-46): the caller holds the write guard
PollReadyLock(c) ==
    /\ pc[c] = "idle" /\ woken[c]
    /\ LockFree
    /\ writer' = c
    /\ pc' = [pc EXCEPT ![c] = "polling"]
    /\ UNCHANGED <<readers, waiters, woken, lastPoll, r, received,
                   readyAtSubmit, promise, fut, lpc>>
    /\ UNCHANGED <<dropped, notShared>>

\* faulty variant: an error of S reported as not-ready
DelegatedHidingErr(out) == IF out = "Err" THEN "Pending" ELSE out

\* what poll_ready returns when it delegated (shared.rs:47)
Delegated(out) == out

\* lock.poll_ready(cx) under the guard, the guard dropped on return (shared.rs:47-48)
PollReadyInner(c) ==
    /\ pc[c] = "polling"
    /\ \E out \in PollOutcomes :
        /\ InnerPollReady(out)
        /\ lastPoll' = [lastPoll EXCEPT ![c] = <<Delegated(out), out>>]
        /\ woken' = [woken EXCEPT ![c] = (Delegated(out) # "Pending")]
        /\ ReleaseWrite([pc EXCEPT ![c] =
                            IF Delegated(out) = "Ready" THEN "ready" ELSE "idle"])
    /\ UNCHANGED <<r, received, readyAtSubmit, fut>>
    /\ UNCHANGED <<dropped, notShared>>

\* ------------------------------------------------------------- SharedService::call
\* call(req) after a Ready, and the first poll of its future: client.write().await
\* (shared.rs:61-64) takes the lock when it is free and queues otherwise
CallAcquire(c) ==
    /\ pc[c] = "ready"
    /\ IF LockFree
       THEN /\ writer' = c
            /\ pc' = [pc EXCEPT ![c] = "locked"]
            /\ UNCHANGED waiters
       ELSE /\ waiters' = Append(waiters, c)
            /\ pc' = [pc EXCEPT ![c] = "queued"]
            /\ UNCHANGED writer
    /\ UNCHANGED <<readers, woken, lastPoll, r, received, readyAtSubmit,
                   promise, fut, lpc>>
    /\ UNCHANGED <<dropped, notShared>>

\* the slot of the future guard.call(req) returns to caller c (shared.rs:65)
CallFuture(c) == c

\* let r = guard.call(req); drop(guard) (shared.rs:65-66)
CallSubmit(c) ==
    /\ pc[c] = "locked"
    /\ readyAtSubmit' = [readyAtSubmit EXCEPT ![c] = promise]
    /\ InnerCall(CallFuture(c), Req(c))
    /\ r' = [r EXCEPT ![c] = CallFuture(c)]
    /\ ReleaseWrite([pc EXCEPT ![c] = "awaiting"])
    /\ UNCHANGED <<woken, lastPoll, received>>
    /\ UNCHANGED <<dropped, notShared>>

\* faulty variant: every caller awaits the future of the next caller's slot
AwaitedNext(c) == (c % NumCallers) + 1

\* the future the caller awaits (shared.rs:68)
Awaited(c) == r[c]

\* r.await resolves (shared.rs:68)
CallAwait(c) ==
    /\ pc[c] = "awaiting"
    /\ fut[Awaited(c)].st \in CallOutcomes
    /\ received' = [received EXCEPT ![c] =
                       [req |-> fut[Awaited(c)].req, res |-> fut[Awaited(c)].st]]
    /\ pc' = [pc EXCEPT ![c] = "done"]
    /\ UNCHANGED <<writer, readers, waiters, woken, lastPoll, r,
                   readyAtSubmit, promise, fut, lpc>>
    /\ UNCHANGED <<dropped, notShared>>

NoFuture == [req |-> Req(NoOne), st |-> "none"]
NoOutcome == [req |-> Req(NoOne), res |-> "None"]
NotPolled == <<"None", "untouched">>

\* the holder drops the finished call and uses its clone again
Again(c) ==
    /\ pc[c] = "done"
    /\ pc' = [pc EXCEPT ![c] = "idle"]
    /\ woken' = [woken EXCEPT ![c] = TRUE]
    /\ lastPoll' = [lastPoll EXCEPT ![c] = NotPolled]
    /\ r' = [r EXCEPT ![c] = NoOne]
    /\ received' = [received EXCEPT ![c] = NoOutcome]
    /\ readyAtSubmit' = [readyAtSubmit EXCEPT ![c] = TRUE]
    /\ fut' = [fut EXCEPT ![c] = NoFuture]
    /\ UNCHANGED <<writer, readers, waiters, promise, lpc>>
    /\ UNCHANGED <<dropped, notShared>>

\* ------------------------------------------------------------- dropping a call future
\* the queue without the waiter of a dropped write().await
Without(q, c) == SelectSeq(q, LAMBDA x : x # c)

\* faulty variant: a future dropped after it was handed the lock keeps the lock
DropCallKeepingLock(c) ==
    /\ pc[c] \in {"queued", "locked", "awaiting"}
    /\ dropped' = <<c, pc[c]>>
    /\ pc' = [pc EXCEPT ![c] = "idle"]
    /\ waiters' = Without(waiters, c)
    /\ UNCHANGED <<writer, readers, lpc>>
    /\ woken' = [woken EXCEPT ![c] = TRUE]
    /\ lastPoll' = [lastPoll EXCEPT ![c] = NotPolled]
    /\ r' = [r EXCEPT ![c] = NoOne]
    /\ received' = [received EXCEPT ![c] = NoOutcome]
    /\ readyAtSubmit' = [readyAtSubmit EXCEPT ![c] = TRUE]
    /\ fut' = [fut EXCEPT ![c] = NoFuture]
    /\ UNCHANGED promise
    /\ UNCHANGED notShared

\* The holder drops the future of SharedService::call (shared.rs:61-69) before it
\* completed, and uses its clone again.  The future owns, by its position: the
\* pending client.write().await, whose drop leaves the wait queue ("queued") or gives
\* back the access it was handed and did not use yet ("locked"); or the future r
\* only, the guard having been dropped at shared.rs:66 ("awaiting").
DropCall(c) ==
    /\ pc[c] \in {"queued", "locked", "awaiting"}
    /\ dropped' = <<c, pc[c]>>
    /\ IF pc[c] = "locked"
       THEN ReleaseWrite([pc EXCEPT ![c] = "idle"])
       ELSE /\ pc' = [pc EXCEPT ![c] = "idle"]
            /\ waiters' = Without(waiters, c)
            /\ UNCHANGED <<writer, readers, lpc>>
    /\ woken' = [woken EXCEPT ![c] = TRUE]
    /\ lastPoll' = [lastPoll EXCEPT ![c] = NotPolled]
    /\ r' = [r EXCEPT ![c] = NoOne]
    /\ received' = [received EXCEPT ![c] = NoOutcome]
    /\ readyAtSubmit' = [readyAtSubmit EXCEPT ![c] = TRUE]
    /\ fut' = [fut EXCEPT ![c] = NoFuture]
    /\ UNCHANGED promise
    /\ UNCHANGED notShared

\* ------------------------------------------------------------- Load::load
\* blocking_read() (shared.rs:77): read access at once when no writer holds or
\* waits, else the thread blocks in the queue
LoadAcquire ==
    /\ lpc = "idle"
    /\ IF writer = NoOne /\ waiters = <<>>
       THEN /\ readers' = readers \cup {Loader}
            /\ lpc' = "reading"
            /\ UNCHANGED waiters
       ELSE /\ waiters' = Append(waiters, Loader)
            /\ lpc' = "blocked"
            /\ UNCHANGED readers
    /\ UNCHANGED <<writer, pc, woken, lastPoll, r, received,
                   readyAtSubmit, promise, fut>>
    /\ UNCHANGED <<dropped, notShared>>

\* .load() under the read guard, the guard dropped on return (shared.rs:77)
LoadRead ==
    /\ lpc = "reading"
    /\ LET g == Grant(NoOne, readers \ {Loader}, waiters) IN
        /\ writer' = g[1]
        /\ readers' = g[2]
        /\ waiters' = g[3]
        /\ pc' = Handed(g, pc)
    /\ lpc' = "idle"
    /\ UNCHANGED <<woken, lastPoll, r, received,
                   readyAtSubmit, promise, fut>>
    /\ UNCHANGED <<dropped, notShared>>

\* ------------------------------------------------------------- Request
\* Duration::from_secs(3) of Request::new and of Requestable::timeout
DefaultTimeout == 3

\* the timeouts a caller passes, or a payload type's timeout() returns
Timeouts == {DefaultTimeout, DefaultTimeout + 2}

\* Payload values, by what serde_json::to_value makes of them: an object (its
\* top-level fields in order), another JSON value, or a serialization failure.
Payloads ==
    { [kind |-> "object", fields |-> << <<"@type", 1>>, <<"timeout", 2>> >>],
      [kind |-> "object", fields |-> << <<"@extra", 0>>, <<"@type", 1>> >>],
      [kind |-> "scalar", fields |-> << >>],
      [kind |-> "unserializable", fields |-> << >>] }

NoValue == [kind |-> "none", fields |-> << >>]
NoRequest == [id |-> 0, timeout |-> 0, data |-> NoValue]

\* serde_json::to_value(data) (request.rs:72)
ToValue(P) ==
    IF P.kind = "unserializable" THEN [ok |-> FALSE, val |-> NoValue]
    ELSE [ok |-> TRUE, val |-> P]

\* RequestId::new_v4() (request.rs:70, 78): a version-4 UUID, taken as never
\* repeating
NewV4 == minted + 1

\* Request::with_timeout (request.rs:68-74)
WithTimeout(P, timeout, id) ==
    LET v == ToValue(P) IN
    IF v.ok THEN [ok |-> TRUE, val |-> [id |-> id, timeout |-> timeout, data |-> v.val]]
    ELSE [ok |-> FALSE, val |-> NoRequest]

\* Request::new (request.rs:64-66)
New(P, id) == WithTimeout(P, DefaultTimeout, id)

\* Requestable::into_request (request.rs:17-21); timeout is self.timeout()
IntoRequest(P, timeout, id) == WithTimeout(P, timeout, id)

\* faulty variant: with_new_id that keeps the id
WithNewIdSameId(q, id) == [id |-> q.id, timeout |-> q.timeout, data |-> q.data]

\* faulty variant: with_new_id that falls back to the default timeout
WithNewIdDefaultTimeout(q, id) == [id |-> id, timeout |-> DefaultTimeout, data |-> q.data]

\* Request::with_new_id (request.rs:76-82)
WithNewId(q, id) == [id |-> id, timeout |-> q.timeout, data |-> q.data]

\* #[derive(Clone)] (request.rs:42)
Clone(q) == q

\* faulty variant: the timeout serialized as a field of its own
SerializeWithTimeout(q) ==
    IF q.data.kind # "object" THEN [ok |-> FALSE, val |-> << >>]
    ELSE [ok |-> TRUE,
          val |-> << <<"@extra", q.id>>, <<"timeout", q.timeout>> >> \o q.data.fields]

\* #[derive(Serialize)] of Request (request.rs:42-52): the entries handed to the
\* serializer: id renamed "@extra", timeout skipped, data flattened; flattening
\* anything but a map is an error
Serialize(q) ==
    IF q.data.kind # "object" THEN [ok |-> FALSE, val |-> << >>]
    ELSE [ok |-> TRUE, val |-> << <<"@extra", q.id>> >> \o q.data.fields]

NoResponse == [id |-> 0, data |-> NoValue]

\* #[derive(Deserialize)] of Response (request.rs:54-61): the "@extra" entry is the
\* id, a missing or repeated one is an error; every other entry goes to data
Deserialize(w) ==
    LET ids == SelectSeq(w, LAMBDA e : e[1] = "@extra")
        rest == SelectSeq(w, LAMBDA e : e[1] # "@extra") IN
    IF Len(ids) # 1 THEN [ok |-> FALSE, val |-> NoResponse]
    ELSE [ok |-> TRUE,
          val |-> [id |-> ids[1][2], data |-> [kind |-> "object", fields |-> rest]]]

NotSent == [of |-> 0, out |-> [ok |-> FALSE, val |-> << >>], read |-> FALSE,
            back |-> [ok |-> FALSE, val |-> NoResponse]]

\* a constructor returned res: the Request joins the live ones when it is Ok
Made(res, by, from) ==
    /\ Len(reqs) < MaxRequests
    /\ reqs' = IF res.ok THEN Append(reqs, res.val) ELSE reqs
    /\ origin' = IF res.ok THEN Append(origin, [by |-> by, from |-> from]) ELSE origin
    /\ UNCHANGED wire
    /\ UNCHANGED notRequest

MakeNew ==
    /\ minted < MaxRequests
    /\ \E P \in Payloads : Made(New(P, NewV4), "new", 0)
    /\ minted' = minted + 1

MakeWithTimeout ==
    /\ minted < MaxRequests
    /\ \E P \in Payloads, t \in Timeouts :
          Made(WithTimeout(P, t, NewV4), "with_timeout", 0)
    /\ minted' = minted + 1

MakeIntoRequest ==
    /\ minted < MaxRequests
    /\ \E P \in Payloads, t \in Timeouts :
          Made(IntoRequest(P, t, NewV4), "into_request", 0)
    /\ minted' = minted + 1

MakeWithNewId ==
    /\ minted < MaxRequests
    /\ \E i \in 1..Len(reqs) :
          Made([ok |-> TRUE, val |-> WithNewId(reqs[i], NewV4)], "with_new_id", i)
    /\ minted' = minted + 1

MakeClone ==
    /\ \E i \in 1..Len(reqs) :
          Made([ok |-> TRUE, val |-> Clone(reqs[i])], "clone", i)
    /\ UNCHANGED minted

\* a live Request is serialized
SerializeRequest ==
    /\ \E i \in 1..Len(reqs) :
          wire' = [of |-> i, out |-> Serialize(reqs[i]), read |-> FALSE,
                   back |-> NotSent.back]
    /\ UNCHANGED <<reqs, origin, minted>>
    /\ UNCHANGED notRequest

\* what was serialized is read back as a Response
ReadResponse ==
    /\ wire.out.ok /\ ~wire.read
    /\ wire' = [wire EXCEPT !.read = TRUE, !.back = Deserialize(wire.out.val)]
    /\ UNCHANGED <<reqs, origin, minted>>
    /\ UNCHANGED notRequest

\* ------------------------------------------------------------- Requestable::call
JsonShapes == {"matching", "other"}

\* let request = self.into_request() (request.rs:26)
RequestableIntoRequest(c) ==
    /\ cpc[c] = "start"
    /\ \E P \in Payloads, t \in Timeouts :
          request' = [request EXCEPT ![c] = IntoRequest(P, t, NewV4)]
    /\ minted' = minted + 1
    /\ cpc' = [cpc EXCEPT ![c] = "built"]
    /\ UNCHANGED <<waited, given, json, deserialized, result>>
    /\ UNCHANGED notCall

\* client.ready().await? (request.rs:28-30)
RequestableReady(c) ==
    /\ cpc[c] = "built"
    /\ waited' = [waited EXCEPT ![c] = TRUE]
    /\ \E ready \in {"Ok", "Err"} :
          IF ready = "Ok"
          THEN /\ cpc' = [cpc EXCEPT ![c] = "ready"]
               /\ UNCHANGED result
          ELSE /\ cpc' = [cpc EXCEPT ![c] = "done"]
               /\ result' = [result EXCEPT ![c] = "ReadyErr"]
    /\ UNCHANGED <<request, given, json, deserialized, minted>>
    /\ UNCHANGED notCall

\* .call(request?) (request.rs:31): the argument is evaluated once the receiver is
\* ready
RequestableSubmit(c) ==
    /\ cpc[c] = "ready"
    /\ IF request[c].ok
       THEN /\ given' = [given EXCEPT ![c] = TRUE]
            /\ cpc' = [cpc EXCEPT ![c] = "submitted"]
            /\ UNCHANGED result
       ELSE /\ cpc' = [cpc EXCEPT ![c] = "done"]
            /\ result' = [result EXCEPT ![c] = "SerializeErr"]
            /\ UNCHANGED given
    /\ UNCHANGED <<request, waited, json, deserialized, minted>>
    /\ UNCHANGED notCall

\* .await? of the capability's future (request.rs:32)
RequestableAnswer(c) ==
    /\ cpc[c] = "submitted"
    /\ \/ \E j \in JsonShapes :
            /\ json' = [json EXCEPT ![c] = j]
            /\ cpc' = [cpc EXCEPT ![c] = "answered"]
            /\ UNCHANGED result
       \/ /\ cpc' = [cpc EXCEPT ![c] = "done"]
          /\ result' = [result EXCEPT ![c] = "TransportErr"]
          /\ UNCHANGED json
    /\ UNCHANGED <<request, waited, given, deserialized, minted>>
    /\ UNCHANGED notCall

\* serde_json::from_value::<Self::Response>(json)? (request.rs:34-36)
RequestableDeserialize(c) ==
    /\ cpc[c] = "answered"
    /\ deserialized' = [deserialized EXCEPT ![c] = TRUE]
    /\ result' = [result EXCEPT ![c] =
                     IF json[c] = "matching" THEN "Ok" ELSE "DeserializeErr"]
    /\ cpc' = [cpc EXCEPT ![c] = "done"]
    /\ UNCHANGED <<request, waited, given, json, minted>>
    /\ UNCHANGED notCall

\* ------------------------------------------------------------- TvmEmulatorService
\* what the emulator library answers to a request once an emulator exists
LibOutcomes == {"Ok", "Err"}

\* faulty variant: a failed Prepare drops the stored emulator
PrepareEmuTaking(em, lib, n) ==
    IF lib = "Ok" THEN [emulator |-> n, res |-> "Ok"]
    ELSE [emulator |-> 0, res |-> "Err"]

\* prepare_emu (tvm_emulator.rs:83-87): TvmEmulator::new(..)? comes before replace
PrepareEmu(em, lib, n) ==
    IF lib = "Ok" THEN [emulator |-> n, res |-> "Ok"]
    ELSE [emulator |-> em, res |-> "Err"]

\* run_get_method (tvm_emulator.rs:89-100)
RunGetMethod(em, lib) ==
    [emulator |-> em, res |-> IF em = 0 THEN "NotInitialized" ELSE lib]

\* send_external_message (tvm_emulator.rs:102-113)
SendExternalMessage(em, lib) ==
    [emulator |-> em, res |-> IF em = 0 THEN "NotInitialized" ELSE lib]

\* send_internal_message (tvm_emulator.rs:115-126)
SendInternalMessage(em, lib) ==
    [emulator |-> em, res |-> IF em = 0 THEN "NotInitialized" ELSE lib]

\* set_libraries (tvm_emulator.rs:128-137)
SetLibraries(em, lib) ==
    [emulator |-> em, res |-> IF em = 0 THEN "NotInitialized" ELSE lib]

\* set_gas_limit (tvm_emulator.rs:139-148): no error once an emulator exists
SetGasLimit(em, lib) ==
    [emulator |-> em, res |-> IF em = 0 THEN "NotInitialized" ELSE "Ok"]

\* set_c7 (tvm_emulator.rs:150-159)
SetC7(em, lib) ==
    [emulator |-> em, res |-> IF em = 0 THEN "NotInitialized" ELSE lib]

RequestKinds == {"Prepare", "RunGetMethod", "SendExternalMessage",
                 "SendInternalMessage", "SetLibraries", "SetGasLimit", "SetC7"}

\* match req { .. } inside spawn_blocking (tvm_emulator.rs:42-49)
Dispatch(kind, em, lib, n) ==
    CASE kind = "Prepare" -> PrepareEmu(em, lib, n)
      [] kind = "RunGetMethod" -> RunGetMethod(em, lib)
      [] kind = "SendExternalMessage" -> SendExternalMessage(em, lib)
      [] kind = "SendInternalMessage" -> SendInternalMessage(em, lib)
      [] kind = "SetLibraries" -> SetLibraries(em, lib)
      [] kind = "SetGasLimit" -> SetGasLimit(em, lib)
      [] kind = "SetC7" -> SetC7(em, lib)

\* a message with a body whose blocking task is joined: its response, or its
\* error, is yielded and the loop goes on (tvm_emulator.rs:33-64)
ProcessRequest ==
    /\ spc = "running" /\ nread < MaxMessages
    /\ nread' = nread + 1
    /\ \E kind \in RequestKinds, lib \in LibOutcomes :
          LET d == Dispatch(kind, emulator, lib, nread + 1) IN
          /\ emulator' = d.emulator
          /\ output' = Append(output, [kind |-> kind, res |-> d.res])
    /\ UNCHANGED <<spc, endedBy>>
    /\ UNCHANGED notEmulator

\* a message with a body whose blocking task cannot be joined (it panicked or was
\* cancelled): `?` yields the Status and ends the generator (tvm_emulator.rs:50-55)
ProcessJoinError ==
    /\ spc = "running" /\ nread < MaxMessages
    /\ nread' = nread + 1
    /\ \E kind \in RequestKinds :
          output' = Append(output, [kind |-> kind, res |-> "JoinError"])
    /\ spc' = "ended"
    /\ endedBy' = "join error"
    /\ UNCHANGED emulator
    /\ UNCHANGED notEmulator

\* request: None (tvm_emulator.rs:65-69): break
ProcessEmpty ==
    /\ spc = "running" /\ nread < MaxMessages
    /\ nread' = nread + 1
    /\ spc' = "ended"
    /\ endedBy' = "empty request"
    /\ UNCHANGED <<emulator, output>>
    /\ UNCHANGED notEmulator

\* Err(e) from the input stream (tvm_emulator.rs:70-74): break
ProcessInputErr ==
    /\ spc = "running" /\ nread < MaxMessages
    /\ nread' = nread + 1
    /\ spc' = "ended"
    /\ endedBy' = "input error"
    /\ UNCHANGED <<emulator, output>>
    /\ UNCHANGED notEmulator

\* the input stream ends: `for await` is over (tvm_emulator.rs:31, 76)
ProcessInputEnd ==
    /\ spc = "running"
    /\ spc' = "ended"
    /\ endedBy' = "input end"
    /\ UNCHANGED <<emulator, nread, output>>
    /\ UNCHANGED notEmulator

\* ------------------------------------------------------------- specification
RequestStart ==
    /\ reqs = << >>
    /\ origin = << >>
    /\ minted = 0
    /\ wire = NotSent

CallStart ==
    /\ cpc = [c \in Callers |-> "start"]
    /\ request = [c \in Callers |-> [ok |-> FALSE, val |-> NoRequest]]
    /\ waited = [c \in Callers |-> FALSE]
    /\ given = [c \in Callers |-> FALSE]
    /\ json = [c \in Callers |-> "none"]
    /\ deserialized = [c \in Callers |-> FALSE]
    /\ result = [c \in Callers |-> "None"]

EmulatorStart ==
    /\ emulator = 0
    /\ spc = "running"
    /\ nread = 0
    /\ output = << >>
    /\ endedBy = "none"

DiscoverStart ==
    /\ dpc = "tick"
    /\ tick = 0
    /\ liteservers = {}
    /\ liteserver_new = {}
    /\ remove = {}
    /\ insert = {}
    /\ events = <<>>
    /\ polled = "None"
    /\ prevSnap = {}
    /\ built = {}
    /\ failed = {}

SharedStart ==
    /\ writer = NoOne
    /\ readers = {}
    /\ waiters = <<>>
    /\ pc = [c \in Callers |-> "idle"]
    /\ woken = [c \in Callers |-> TRUE]
    /\ lastPoll = [c \in Callers |-> NotPolled]
    /\ r = [c \in Callers |-> NoOne]
    /\ received = [c \in Callers |-> NoOutcome]
    /\ readyAtSubmit = [c \in Callers |-> TRUE]
    /\ promise = FALSE
    /\ fut = [c \in Callers |-> NoFuture]
    /\ lpc = "idle"
    /\ dropped = <<NoOne, "none">>

SharedInit == SharedStart /\ DiscoverStart /\ RequestStart /\ CallStart /\ EmulatorStart

SharedNext ==
    \/ \E c \in Callers : PollReadyBusy(c)
    \/ \E c \in Callers : PollReadyLock(c)
    \/ \E c \in Callers : PollReadyInner(c)
    \/ \E c \in Callers : CallAcquire(c)
    \/ \E c \in Callers : CallSubmit(c)
    \/ \E c \in Callers : CallAwait(c)
    \/ \E c \in Callers : Again(c)
    \/ \E c \in Callers : InnerComplete(c)
    \/ \E c \in Callers : InnerWake(c)
    \/ LoadAcquire
    \/ LoadRead

SharedSpec == SharedInit /\ [][SharedNext]_vars

\* the same tasks, which may also drop a call future before it completed
SharedDropNext ==
    \/ SharedNext
    \/ \E c \in Callers : DropCall(c)

SharedDropSpec == SharedInit /\ [][SharedDropNext]_vars

\* ------------------------------------------------------------- DynamicServiceStream
Nodes == 1..NumNodes

\* Liteserver::id(): a liteserver is equal to another exactly when their ids are
LiteserverId(ls) == ls

\* config.liteservers: a list, in which a liteserver may be repeated
ConfigLists == UNION {[1..n -> Nodes] : n \in 0..NumNodes}

\* HashSet::from_iter(config.liteservers.iter().cloned()) (discover.rs:39)
FromIter(list) == {list[i] : i \in 1..Len(list)}

\* liteservers.difference(&liteserver_new) (discover.rs:41)
LiteserversRemove(old, new) == old \ new

\* liteserver_new.difference(&liteservers) (discover.rs:42)
LiteserversInsert(old, new) == new \ old

Event(t, kind, ls) == [tick |-> t, kind |-> kind, key |-> LiteserverId(ls)]

\* DynamicServiceStream::poll_next (discover.rs:72-84): an Ok item of the generator
\* is handed on; its Err item, its end (None) and its Pending all become Poll::Pending
PollNext(g) == IF g = "Item" THEN "Item" ELSE "Pending"

\* interval.tick().await, then load_ton_config succeeds (discover.rs:35-42)
TickFetched ==
    /\ dpc = "tick"
    /\ tick < MaxTicks
    /\ \E list \in ConfigLists :
        /\ liteserver_new' = FromIter(list)
        /\ remove' = LiteserversRemove(liteservers, FromIter(list))
        /\ insert' = LiteserversInsert(liteservers, FromIter(list))
    /\ tick' = tick + 1
    /\ dpc' = "diff"
    /\ prevSnap' = IF tick = 0 THEN {} ELSE liteserver_new
    /\ built' = {}
    /\ failed' = {}
    /\ UNCHANGED <<liteservers, events, polled>>
    /\ UNCHANGED notDiscover

\* faulty variant: a failed fetch also forgets the tracked snapshot
TickFetchFailedClearing ==
    /\ dpc = "tick"
    /\ tick < MaxTicks
    /\ tick' = tick + 1
    /\ dpc' = "done"
    /\ polled' = "Pending"
    /\ liteservers' = {}
    /\ UNCHANGED <<liteserver_new, remove, insert, events, prevSnap, built, failed>>
    /\ UNCHANGED notDiscover

\* interval.tick().await, then load_ton_config fails: `?` ends the generator
\* (discover.rs:38)
TickFetchFailed ==
    /\ dpc = "tick"
    /\ tick < MaxTicks
    /\ tick' = tick + 1
    /\ dpc' = "done"
    /\ polled' = PollNext("Err")
    /\ UNCHANGED <<liteservers, liteserver_new, remove, insert, events,
                   prevSnap, built, failed>>
    /\ UNCHANGED notDiscover

\* for ls in liteservers_remove { yield Change::Remove(ls.id()) } (discover.rs:46-49)
YieldRemove ==
    /\ dpc = "diff"
    /\ \E ls \in remove :
        /\ events' = Append(events, Event(tick, "Remove", ls))
        /\ remove' = remove \ {ls}
    /\ polled' = PollNext("Item")
    /\ UNCHANGED <<dpc, tick, liteservers, liteserver_new, insert, prevSnap, built, failed>>
    /\ UNCHANGED notDiscover

\* faulty variant: the insert loop does not wait for the remove loop
InsertLoopAnytime == TRUE

\* the loop over liteservers_insert starts when the loop over liteservers_remove
\* is over (discover.rs:46-51)
InsertLoop == remove = {}

\* factory.ready().await?.call(..).await is Ok: yield Change::Insert (discover.rs:54-55)
InsertBuilt ==
    /\ dpc = "diff"
    /\ InsertLoop
    /\ \E ls \in insert :
        /\ events' = Append(events, Event(tick, "Insert", ls))
        /\ insert' = insert \ {ls}
        /\ built' = built \cup {ls}
    /\ polled' = PollNext("Item")
    /\ UNCHANGED <<dpc, tick, liteservers, liteserver_new, remove, prevSnap, failed>>
    /\ UNCHANGED notDiscover

\* the factory call is Err: nothing is yielded for the node (discover.rs:54-56)
InsertFailed ==
    /\ dpc = "diff"
    /\ InsertLoop
    /\ \E ls \in insert :
        /\ insert' = insert \ {ls}
        /\ failed' = failed \cup {ls}
    /\ UNCHANGED <<dpc, tick, liteservers, liteserver_new, remove, events, polled,
                   prevSnap, built>>
    /\ UNCHANGED notDiscover

\* factory.ready().await is Err: `?` ends the generator (discover.rs:54)
FactoryNotReady ==
    /\ dpc = "diff"
    /\ InsertLoop
    /\ insert # {}
    /\ dpc' = "done"
    /\ polled' = PollNext("Err")
    /\ UNCHANGED <<tick, liteservers, liteserver_new, remove, insert, events,
                   prevSnap, built, failed>>
    /\ UNCHANGED notDiscover

\* faulty variant: the tracked snapshot is not replaced
TrackedKept(old, new) == old

\* liteservers = liteserver_new.clone() (discover.rs:59)
Tracked(old, new) == new

\* both loops are over: the snapshot is replaced and the loop goes back to
\* interval.tick().await (discover.rs:59-60, 34-35)
EndTick ==
    /\ dpc = "diff"
    /\ remove = {}
    /\ insert = {}
    /\ liteservers' = Tracked(liteservers, liteserver_new)
    /\ dpc' = "tick"
    /\ polled' = PollNext("Pending")
    /\ UNCHANGED <<tick, liteserver_new, remove, insert, events, prevSnap, built, failed>>
    /\ UNCHANGED notDiscover

\* poll_next after the generator has ended: the generator answers None, nothing is
\* fetched or yielded (discover.rs:72-84)
PollEnded ==
    /\ dpc = "done"
    /\ polled' = PollNext("None")
    /\ UNCHANGED <<dpc, tick, liteservers, liteserver_new, remove, insert, events,
                   prevSnap, built, failed>>
    /\ UNCHANGED notDiscover

DiscoverInit == DiscoverStart /\ SharedStart /\ RequestStart /\ CallStart /\ EmulatorStart

DiscoverNext ==
    \/ TickFetched
    \/ TickFetchFailed
    \/ YieldRemove
    \/ InsertBuilt
    \/ InsertFailed
    \/ FactoryNotReady
    \/ EndTick
    \/ PollEnded

DiscoverSpec == DiscoverInit /\ [][DiscoverNext]_vars

\* the scheduler polls every task that holds what it needs to go on, S completes
\* the calls it accepted, and load() returns
SharedFairness ==
    /\ \A c \in Callers : WF_vars(PollReadyBusy(c) \/ PollReadyLock(c))
    /\ \A c \in Callers : WF_vars(PollReadyInner(c))
    /\ \A c \in Callers : WF_vars(CallSubmit(c))
    /\ \A c \in Callers : WF_vars(CallAwait(c))
    /\ \A c \in Callers : WF_vars(InnerComplete(c))
    /\ WF_vars(LoadRead)

SharedFairSpec == SharedSpec /\ SharedFairness

\* and a task that keeps being woken is not polled only at the instants at which
\* the lock is held
SharedStrongFairSpec ==
    SharedFairSpec /\ \A c \in Callers : SF_vars(PollReadyLock(c))


\* ------------------------------------------------------------- further specifications
RequestInit == RequestStart /\ CallStart /\ EmulatorStart /\ SharedStart /\ DiscoverStart

RequestNext ==
    \/ MakeNew
    \/ MakeWithTimeout
    \/ MakeIntoRequest
    \/ MakeWithNewId
    \/ MakeClone
    \/ SerializeRequest
    \/ ReadResponse

RequestSpec == RequestInit /\ [][RequestNext]_vars

RequestableInit == CallStart /\ RequestStart /\ EmulatorStart /\ SharedStart /\ DiscoverStart

RequestableNext ==
    \/ \E c \in Callers : RequestableIntoRequest(c)
    \/ \E c \in Callers : RequestableReady(c)
    \/ \E c \in Callers : RequestableSubmit(c)
    \/ \E c \in Callers : RequestableAnswer(c)
    \/ \E c \in Callers : RequestableDeserialize(c)

RequestableSpec == RequestableInit /\ [][RequestableNext]_vars

EmulatorInit == EmulatorStart /\ RequestStart /\ CallStart /\ SharedStart /\ DiscoverStart

EmulatorNext ==
    \/ ProcessRequest
    \/ ProcessJoinError
    \/ ProcessEmpty
    \/ ProcessInputErr
    \/ ProcessInputEnd

EmulatorSpec == EmulatorInit /\ [][EmulatorNext]_vars

\* ------------------------------------------------------------- claims C1-C6
InProgress == {f \in Callers : fut[f].st = "running"}
Holding == {c \in Callers : pc[c] \in {"polling", "locked"}}
BusyAnswer == <<"Pending", "untouched">>

\* C1 (as stated): at most one call is in progress on the wrapped capability, from
\* its submission until its result is produced.
C1_AtMostOneInProgress == Cardinality(InProgress) <= 1

\* C1 (amended): at most one task at a time holds the exclusive access under which
\* a call is submitted to the wrapped capability (or its readiness is checked), and it
\* is the lock's writer; calls already submitted stay in progress after the release.
C1_AtMostOneSubmitting ==
    /\ Cardinality(Holding) <= 1
    /\ \A c \in Holding : writer = c /\ readers = {}

C1_Witness ==
    \E c, d \in Callers : c # d /\ pc[c] = "locked" /\ fut[d].st = "running"

\* C2: every call submitted to the wrapped capability follows a readiness check of
\* it that returned Ready, with no other call submitted in between.
C2_SubmitAfterReady ==
    \A c \in Callers : pc[c] \in {"awaiting", "done"} => readyAtSubmit[c]

\* C3: under a fair scheduler every issued call completes when the wrapped calls
\* complete, and the lock is never held forever.
C3_CallsComplete ==
    /\ \A c \in Callers : (pc[c] \in {"queued", "locked", "awaiting"}) ~> (pc[c] = "done")
    /\ (~LockFree) ~> LockFree

C3_Witness ==
    /\ \A c \in Callers : pc[c] = "done"
    /\ lpc = "reading"

\* C4: a caller's call resolves to the outcome the wrapped capability produced for
\* that caller's own request, a success or an error of the wrapped capability.
C4_OwnOutcome ==
    \A c \in Callers : pc[c] = "done" =>
        /\ received[c].req = Req(c)
        /\ received[c].res \in CallOutcomes
        /\ \E f \in Callers : fut[f].req = Req(c) /\ fut[f].st = received[c].res

C4_Witness ==
    \E c, d \in Callers :
        /\ pc[c] = "done" /\ pc[d] = "done"
        /\ received[c].res = "Ok" /\ received[d].res = "Err"

\* C5: poll_ready never waits for the lock. A poller is never queued and never
\* holds access once it has returned; with the access held it answers Pending in
\* one step and leaves the wrapped capability untouched; with the access free it
\* goes on to the wrapped poll_ready and returns exactly its result.
C5_PollReadyNeverWaits ==
    /\ [](\A c \in Callers :
            /\ pc[c] = "polling" => writer = c
            /\ pc[c] \in {"idle", "polling", "ready"} =>
                  \A i \in 1..Len(waiters) : waiters[i] # c
            /\ pc[c] \in {"idle", "ready"} => writer # c /\ c \notin readers)
    /\ [][\A c \in Callers :
            /\ (pc[c] = "idle" /\ ~LockFree /\ lastPoll'[c] # lastPoll[c]) =>
                  /\ lastPoll'[c] = BusyAnswer
                  /\ pc'[c] = "idle"
                  /\ UNCHANGED <<writer, readers, waiters, promise, fut>>
            /\ (pc[c] = "idle" /\ LockFree /\ pc'[c] # "idle") => pc'[c] = "polling"
            /\ (pc[c] = "polling" /\ pc'[c] # "polling") =>
                  /\ lastPoll'[c][2] \in PollOutcomes
                  /\ lastPoll'[c][1] = lastPoll'[c][2]
                  /\ pc'[c] \in {"idle", "ready"}
                  /\ writer' # c]_vars

C5_Witness ==
    \E c, d \in Callers :
        /\ pc[c] = "idle" /\ lastPoll[c] = BusyAnswer
        /\ pc[d] = "idle" /\ lastPoll[d] = <<"Err", "Err">>

Count(t, kind, k) ==
    Cardinality({i \in 1..Len(events) :
        events[i].tick = t /\ events[i].kind = kind /\ events[i].key = k})

\* the kind of the latest event for the key of events[i] before it, or "None"
PrevKind(i) ==
    LET js == {j \in 1..(i - 1) : events[j].key = events[i].key} IN
    IF js = {} THEN "None"
    ELSE events[CHOOSE j \in js : \A h \in js : h <= j].kind

\* the keys whose latest event is an Insert
Inserted ==
    {events[i].key : i \in {j \in 1..Len(events) :
        /\ events[j].kind = "Insert"
        /\ \A h \in (j + 1)..Len(events) : events[h].key # events[j].key}}

TickOver == dpc = "tick" /\ tick > 0

\* C7: the tick that processes snapshot S2 after S1 yields exactly one Remove for
\* each node of S1 \ S2, exactly one Insert for each node of S2 \ S1 whose client
\* was constructed (every node of S2 \ S1 is tried), and nothing else.
C7_TickYieldsTheDiff ==
    TickOver =>
        /\ built \cup failed = liteserver_new \ prevSnap
        /\ \A n \in Nodes :
            /\ Count(tick, "Remove", LiteserverId(n)) =
                  (IF n \in prevSnap \ liteserver_new THEN 1 ELSE 0)
            /\ Count(tick, "Insert", LiteserverId(n)) =
                  (IF n \in (liteserver_new \ prevSnap) \cap built THEN 1 ELSE 0)

C7_Witness ==
    /\ TickOver /\ tick = 2
    /\ \E a, b, d \in Nodes :
        /\ a \in prevSnap \ liteserver_new
        /\ b \in prevSnap \cap liteserver_new
        /\ d \in (liteserver_new \ prevSnap) \cap built

\* C8: a node whose client construction failed in a tick is not in the tracked
\* snapshot after the tick, and the next tick that still fetches it tries to
\* insert it again.
C8_FailedNodeRetried ==
    /\ [](TickOver => failed \cap liteservers = {})
    /\ [][(dpc = "tick" /\ dpc' = "diff") =>
            (failed \cap liteserver_new') \subseteq insert']_vars

\* C9: the events of one key alternate Insert, Remove, Insert, ... from an Insert,
\* and after a tick in which every construction succeeded the keys whose latest
\* event is an Insert are the latest snapshot.
C9_EventsAlternate ==
    /\ \A i \in 1..Len(events) :
        /\ events[i].kind = "Remove" => PrevKind(i) = "Insert"
        /\ events[i].kind = "Insert" => PrevKind(i) # "Insert"
    /\ (TickOver /\ failed = {}) =>
          Inserted = {LiteserverId(n) : n \in liteserver_new}

\* C10: ticks do not overlap (a tick begins only when both loops of the one before
\* are over), every Remove of a tick is yielded before any of its Inserts, and the
\* events of a tick are yielded before those of the next.
C10_TicksInOrder ==
    /\ [](/\ dpc = "tick" => remove = {} /\ insert = {}
          /\ \A i, j \in 1..Len(events) : i < j =>
                /\ events[i].tick <= events[j].tick
                /\ (events[i].tick = events[j].tick /\ events[i].kind = "Insert")
                      => events[j].kind = "Insert")
    /\ [][/\ tick' # tick => dpc = "tick" /\ remove = {} /\ insert = {}
          /\ events' # events =>
                /\ dpc = "diff" /\ tick' = tick
                /\ events' = Append(events, events'[Len(events')])
                /\ events'[Len(events')].tick = tick]_vars

C10_Witness ==
    \E i, j, h \in 1..Len(events) :
        /\ i < j /\ j < h
        /\ events[i].tick = 1
        /\ events[j].tick = 2 /\ events[j].kind = "Remove"
        /\ events[h].tick = 2 /\ events[h].kind = "Insert"

\* ------------------------------------------------------------- claims C11-C13
\* the generator ended in a tick whose fetch failed (not inside the insert loop)
FetchFailedEnd == dpc = "done" /\ insert = {}

\* C11: the tick whose configuration fetch fails yields no event and leaves the
\* tracked snapshot as it was, and neither changes afterwards.
C11_FailedFetchChangesNothing ==
    /\ [][(dpc = "tick" /\ dpc' = "done") =>
            /\ events' = events
            /\ liteservers' = liteservers
            /\ polled' # "Item"]_vars
    /\ [][FetchFailedEnd => UNCHANGED <<events, liteservers>>]_vars

C11_Witness ==
    /\ FetchFailedEnd
    /\ tick = 2
    /\ liteservers # {}
    /\ events # <<>>

\* C12: after a failed configuration fetch the consumer has been given the end of
\* the stream or the error, and later polls yield no item and start no tick.
C12_FetchFailureEndsStream ==
    /\ [](FetchFailedEnd => polled \in {"Err", "None"})
    /\ [][dpc = "done" => (polled' # "Item" /\ UNCHANGED <<tick, events>>)]_vars

\* C13: no failure of the client factory for an inserted node ends the stream: the
\* generator never ends while nodes of the tick are still to be inserted.
C13_FactoryFailureNeverAborts == ~(dpc = "done" /\ insert # {})

\* ------------------------------------------------------------- claims C18-C19
\* C18: a poll_ready that finds the exclusive access held does not leave its task
\* woken: the task is polled again only after a wake-up that follows a release.
C18_BusyPollDoesNotSpin ==
    [][\A c \in Callers :
          (lastPoll[c] # BusyAnswer /\ lastPoll'[c] = BusyAnswer) => ~woken'[c]]_vars

\* C19: whenever call futures are dropped, write access is held only by a task in
\* poll_ready's delegation or about to submit, the queue holds only tasks suspended
\* in write().await, and the task that dropped holds and awaits nothing.
C19_DroppedCallHoldsNothing ==
    /\ \A c \in Callers : writer = c => pc[c] \in {"polling", "locked"}
    /\ \A i \in 1..Len(waiters) : waiters[i] \in Callers => pc[waiters[i]] = "queued"
    /\ \A c \in Callers : pc[c] = "idle" => (writer # c /\ r[c] = NoOne)

\* a future was dropped after it had been handed the access, and another caller
\* holds the access now
C19_Witness ==
    /\ dropped[2] = "locked"
    /\ \E c \in Callers : c # dropped[1] /\ writer = c /\ pc[c] = "locked"

\* ------------------------------------------------------------- claims C14-C17
\* the Request a clone is, through any number of clonings, a copy of
RECURSIVE Root(_)
Root(i) == IF origin[i].by = "clone" THEN Root(origin[i].from) ELSE i

\* C14 as stated: no two live Requests carry equal identifiers, clones included.
C14_LiveIdsDistinct ==
    \A i, j \in 1..Len(reqs) : i # j => reqs[i].id # reqs[j].id

\* C14: two live Requests carry equal identifiers exactly when one is a clone of
\* the other or both are clones of one Request; Requests made by new, with_timeout,
\* into_request and with_new_id carry pairwise distinct identifiers.
C14_OnlyClonesShareIds ==
    \A i, j \in 1..Len(reqs) : (reqs[i].id = reqs[j].id) <=> (Root(i) = Root(j))

C14_Witness ==
    /\ Len(reqs) = 3
    /\ \E j \in 1..Len(reqs) : origin[j].by = "clone"
    /\ \E k \in 1..Len(reqs) : origin[k].by = "with_new_id"

\* C15: a Request made by with_new_id has another id than the Request it was made
\* from, the same payload and the same timeout, and no operation changes a Request
\* that exists.
C15_WithNewIdKeepsTheRest ==
    /\ [](\A j \in 1..Len(reqs) :
            origin[j].by = "with_new_id" =>
                /\ reqs[j].id # reqs[origin[j].from].id
                /\ reqs[j].data = reqs[origin[j].from].data
                /\ reqs[j].timeout = reqs[origin[j].from].timeout)
    /\ [][\A i \in 1..Len(reqs) : reqs'[i] = reqs[i]]_vars

C15_Witness ==
    \E j \in 1..Len(reqs) :
        /\ origin[j].by = "with_new_id"
        /\ reqs[j].timeout # DefaultTimeout

\* the Request that was serialized last
Sent == reqs[wire.of]

\* the entries of w under another key than the reserved one
OwnFields(w) == SelectSeq(w, LAMBDA e : e[1] # "@extra")

\* serialization gave one flat structure: the id under "@extra", once, next to the
\* payload's own fields and nothing else; reading it back gave the id and the fields
RoundTrip ==
    /\ wire.out.ok
    /\ \E k \in 1..Len(wire.out.val) : wire.out.val[k] = <<"@extra", Sent.id>>
    /\ Len(wire.out.val) = Len(Sent.data.fields) + 1
    /\ OwnFields(wire.out.val) = Sent.data.fields
    /\ wire.read =>
          /\ wire.back.ok
          /\ wire.back.val.id = Sent.id
          /\ wire.back.val.data.fields = Sent.data.fields

\* the payload is an object that has no field under the reserved name
Flattenable(v) ==
    /\ v.kind = "object"
    /\ \A k \in 1..Len(v.fields) : v.fields[k][1] # "@extra"

\* C16 as stated: the round trip holds for the Request built from every payload.
C16_RoundTripEveryPayload == wire.of # 0 => RoundTrip

\* C16: for every payload that serializes to an object with no top-level "@extra"
\* field, the serialized Request is one flat structure of the id under "@extra" and
\* the payload's fields, without the Request's timeout, and reading it back as a
\* Response gives that id and those fields.
C16_RoundTripFlatPayload == (wire.of # 0 /\ Flattenable(Sent.data)) => RoundTrip

C16_Witness ==
    /\ wire.of # 0
    /\ wire.read
    /\ Flattenable(Sent.data)
    /\ \E k \in 1..Len(Sent.data.fields) : Sent.data.fields[k][1] = "timeout"
    /\ Sent.timeout # DefaultTimeout

\* C17: a call whose payload cannot be serialized neither waits for the capability's
\* readiness nor gives it a request, and returns the serialization error; a call
\* that returned a readiness or transport error deserialized nothing.
C17_StopsAtFirstFailure ==
    \A c \in Callers :
        /\ (cpc[c] # "start" /\ ~request[c].ok) =>
              /\ ~waited[c]
              /\ ~given[c]
              /\ cpc[c] = "done" => result[c] = "SerializeErr"
        /\ result[c] \in {"ReadyErr", "TransportErr"} => ~deserialized[c]

\* ------------------------------------------------------------- claim C20
\* the items yielded before item k hold no successful Prepare
NotPrepared(k) ==
    \A m \in 1..(k - 1) : ~(output[m].kind = "Prepare" /\ output[m].res = "Ok")

\* an item has just been yielded
Yielded == Len(output') = Len(output) + 1

\* a request other than Prepare before any successful Prepare is answered with the
\* not-initialized error and the stream goes on; a failed Prepare leaves the emulator
EmulatorSession ==
    /\ [][(/\ Yielded
           /\ output'[Len(output')].kind # "Prepare"
           /\ NotPrepared(Len(output'))
           /\ output'[Len(output')].res # "JoinError")
          => (output'[Len(output')].res = "NotInitialized" /\ spc' = "running")]_vars
    /\ [][(/\ Yielded
           /\ output'[Len(output')].kind = "Prepare"
           /\ output'[Len(output')].res # "Ok")
          => emulator' = emulator]_vars

\* C20 as stated: with the above, only a request with no body or an input-stream
\* error ends the output stream.
C20_OnlyEmptyOrErrorEnds ==
    /\ EmulatorSession
    /\ [](spc = "ended" => endedBy \in {"empty request", "input error"})

\* C20: a request other than Prepare that arrives before a Prepare has succeeded,
\* and whose blocking task is joined, yields the not-initialized error and the
\* stream keeps processing; a Prepare that fails leaves the stored emulator as it
\* was; the output stream ends on a request with no body, on an input-stream error,
\* at the end of the input stream, or with the error item yielded when the blocking
\* task of a request cannot be joined.
C20_SessionAndItsEnds ==
    /\ EmulatorSession
    /\ [](spc = "ended" =>
            endedBy \in {"empty request", "input error", "input end", "join error"})
    /\ [](\A k \in 1..Len(output) :
            output[k].res = "JoinError" =>
                (k = Len(output) /\ spc = "ended" /\ endedBy = "join error"))

C20_Witness ==
    /\ Len(output) = 3
    /\ output[1].kind = "RunGetMethod" /\ output[1].res = "NotInitialized"
    /\ output[2].kind = "Prepare" /\ output[2].res = "Ok"
    /\ output[3].kind = "Prepare" /\ output[3].res = "Err"
    /\ emulator = 2

====
